---------------------------- MODULE Spec2Model ----------------------------
(***************************************************************************)
(* satnow: the TLE parser (readLine / readTLEs), the manifest ingestion    *)
(* (update, tryParseFile, tryParseURL), the SQLite catalog (DBSQLite), the *)
(* look-angle view (SatLookAngles) and the curses controllers (runGUI and  *)
(* DisplayNCurses::render).                                                *)
(*                                                                         *)
(* Text is a sequence of one-character strings.  A file is the sequence of *)
(* lines getline() yields: every line keeps its terminating "\n", only the *)
(* last line of a file may lack one.  A Tle (libsgp4) is taken as the      *)
(* triple its accessors Name/Line1/Line2 return.                           *)
(***************************************************************************)
EXTENDS Integers, Sequences, FiniteSets, TLC

VARIABLES
  pc,         \* position of the modelled routine
  input,      \* readTLEs: the open FILE's lines
  junk,       \* readTLEs: bytes found in getline's never-written buffer
  parsed,     \* readTLEs: [tles, diags] returned / written to std::cerr
  manifest,   \* update: the lines std::getline yields from sourceFile
  lineNumber, \* update: lineNumber
  results,    \* update: results, the batch
  cerr,       \* what was written to std::cerr (by update, by a failed assert)
  cout,       \* update: what was written to std::cout
  verbose,    \* update: verbose
  idx,        \* update: records of the batch the last loop has passed
  calls,      \* update: the tryParseFile / tryParseURL calls made
  upserts,    \* the records db.update was called with
  db,         \* DBSQLite: the rows of table tle, in rowid order
  dbok,       \* DBSQLite: ok(), the last sqlite3 call's error code is OK
  sats,       \* SatLookAngles::_sats: <<[tle, range]>>, range of the look angle
  built,      \* what fetchTLEs returned to getSatellitesAndLookAngles
  fetches,    \* number of fetchTLEs calls made
  gui,        \* the controller: "runGUI" (main.cc) or "render" (display.cc)
  lines,      \* curses LINES
  refreshSecs,\* DisplayNCurses::_refreshSecs
  menu,       \* the posted MENU: [cur, top], current item index and top row
  handle,     \* the controller's MENU *menu: "null", "live" or "stale"
  info,       \* infoPanel: "under" the main panel, "hidden" or "shown"
  key,        \* the key loop's int c: what getch returned last
  detail,     \* the Tle the info window shows on screen, <<>> when it shows none
  held,       \* kinds of display resources with an object not yet released
  lat,        \* main: double lat (-x)
  lon,        \* main: double lon (-y)
  sourceFile, \* main: -u was given (manifest is the file it names)
  opened,     \* DBSQLite's constructor has run on dbFile
  status      \* main: "running", or the exit status "failure" / "success"

parseVars  == <<input, junk, parsed>>
ingestVars == <<manifest, lineNumber, results, cerr, cout, verbose, idx,
                calls, upserts>>
dbVars     == <<db, dbok>>

viewVars   == <<sats, built, fetches>>
guiVars    == <<gui, lines, refreshSecs, menu, handle, info, key, detail, held>>

mainVars   == <<lat, lon, sourceFile, opened, status>>

vars == <<pc, parseVars, ingestVars, dbVars, viewVars, guiVars, mainVars>>

----------------------------------------------------------------------------
(* Characters and std::string helpers                                      *)

Letters == {"A", "B", "C", "D", "E", "F", "G", "H", "I", "J", "K", "L", "M",
            "N", "O", "P", "Q", "R", "S", "T", "U", "V", "W", "X", "Y", "Z",
            "a", "b", "c", "d", "e", "f", "g", "h", "i", "j", "k", "l", "m",
            "n", "o", "p", "q", "r", "s", "t", "u", "v", "w", "x", "y", "z"}

\* the set " \t\r\n" of readTLEs and update
Whitespace == {" ", "\t", "\r", "\n"}

\* std::isalpha in the C locale
IsAlpha(c) == c \in Letters

\* n copies of c
Rep(c, n) == [i \in 1..n |-> c]

\* std::string::substr(pos, n), pos counted from 0
Substr(s, pos, n) ==
  LET last == IF pos + n < Len(s) THEN pos + n ELSE Len(s)
  IN  SubSeq(s, pos + 1, last)

\* std::string::npos
NPos == -1

\* std::string::find_last_not_of(set): 0-based index or NPos
FindLastNotOf(s, set) ==
  LET hits == {i \in 1..Len(s) : s[i] \notin set}
  IN  IF hits = {} THEN NPos
      ELSE (CHOOSE i \in hits : \A j \in hits : j <= i) - 1

\* std::string::find_first_not_of(set): 0-based index or NPos
FindFirstNotOf(s, set) ==
  LET hits == {i \in 1..Len(s) : s[i] \notin set}
  IN  IF hits = {} THEN NPos
      ELSE (CHOOSE i \in hits : \A j \in hits : i <= j) - 1

\* std::string::find_first_of(set, from): 0-based index or NPos
FindFirstOf(s, set, from) ==
  LET hits == {i \in (from + 1)..Len(s) : s[i] \in set}
  IN  IF hits = {} THEN NPos
      ELSE (CHOOSE i \in hits : \A j \in hits : i <= j) - 1

\* std::string::find(needle) != npos
Contains(s, needle) ==
  \E i \in 1..Len(s) :
    /\ i + Len(needle) - 1 <= Len(s)
    /\ SubSeq(s, i, i + Len(needle) - 1) = needle

----------------------------------------------------------------------------
(* readLine and readTLEs (main.cc)                                         *)

\* width of a TLE data line kept by readTLEs
DataWidth == 69
\* a first line of at most this size is taken as a name
NameLineMax == 24
\* width a name is cut to
NameWidth == 22

\* A FILE: pos lines consumed, eof = the stream's end-of-file indicator.
FOpen == [pos |-> 0, eof |-> FALSE]

\* readLine(fp, str).  g is what the buffer getline() allocated holds when
\* getline() hits end of file before writing to it: the code builds str
\* from that buffer all the same.
ReadLine(file, fp, g) ==
  IF fp.eof
    THEN [ok |-> FALSE, str |-> <<>>, fp |-> fp]
  ELSE IF fp.pos >= Len(file)
    THEN [ok |-> g # <<>>, str |-> g, fp |-> [fp EXCEPT !.eof = TRUE]]
  ELSE LET line == file[fp.pos + 1]
       IN  [ok  |-> TRUE,
            str |-> line,
            fp  |-> [pos |-> fp.pos + 1,
                     eof |-> line[Len(line)] # "\n"]]

\* TrimName without the cut to 22 characters
TrimNameUncut(name) ==
  LET en == FindLastNotOf(name, Whitespace)
  IN  IF en # NPos THEN Substr(name, 0, en + 1) ELSE name

\* the name readTLEs keeps: trailing whitespace trimmed, then cut to 22
TrimName(name) ==
  LET en == FindLastNotOf(name, Whitespace)
      t  == IF en # NPos THEN Substr(name, 0, en + 1) ELSE name
  IN  IF Len(t) > NameWidth THEN Substr(t, 0, NameWidth) ELSE t

\* main.cc:141, the test that makes the line just read the record's name
IsNameLine(line) ==
  (Len(line) > 0 /\ IsAlpha(line[1])) \/ Len(line) <= NameLineMax

\* Tle(name, line1, line2)
Tle(name, line1, line2) == [name |-> name, line1 |-> line1, line2 |-> line2]

\* One pass of readTLEs' while loop and the passes after it.
\* st = [fp, tles, name, lineNo, diags]
RECURSIVE ReadLoop(_, _, _, _)
ReadLoop(fname, file, g, st) ==
  LET r0 == ReadLine(file, st.fp, g)
  IN  IF ~r0.ok
        THEN [tles |-> st.tles, diags |-> st.diags]
      ELSE
        LET name == TrimName(IF IsNameLine(r0.str) THEN r0.str ELSE st.name)
            r1   == ReadLine(file, r0.fp, g)
        IN  IF ~r1.ok
              THEN [tles  |-> st.tles,
                    diags |-> Append(st.diags,
                                [what |-> "line1", lineNo |-> st.lineNo + 2,
                                 src |-> fname])]
            ELSE
              LET r2 == ReadLine(file, r1.fp, g)
              IN  IF ~r2.ok
                    THEN [tles  |-> st.tles,
                          diags |-> Append(st.diags,
                                      [what |-> "line2",
                                       lineNo |-> st.lineNo + 3,
                                       src |-> fname])]
                  ELSE ReadLoop(fname, file, g,
                         [fp     |-> r2.fp,
                          tles   |-> Append(st.tles,
                                       Tle(name,
                                           Substr(r1.str, 0, DataWidth),
                                           Substr(r2.str, 0, DataWidth))),
                          name   |-> <<>>,
                          lineNo |-> st.lineNo + 3,
                          diags  |-> st.diags])

\* readTLEs(fname, fp) on a freshly opened (or rewound) stream
ReadTLEs(fname, file, g) ==
  ReadLoop(fname, file, g,
           [fp |-> FOpen, tles |-> <<>>, name |-> <<>>, lineNo |-> 0,
            diags |-> <<>>])


----------------------------------------------------------------------------
(* Inputs of the parser                                                    *)

\* longest tail of sample lines appended to a file
MaxLines == 3

\* a line of n characters beginning with `head`, padded with `fill`
Line(head, fill, n) == head \o Rep(fill, n - Len(head))
Eol(l) == l \o <<"\n">>

\* NORAD catalog number as TLE columns 3-7 hold it
NoradField(id) ==
  LET d(k) == CASE k = 0 -> "0" [] k = 1 -> "1" [] k = 2 -> "2" [] k = 3 -> "3"
                [] k = 4 -> "4" [] k = 5 -> "5" [] k = 6 -> "6" [] k = 7 -> "7"
                [] k = 8 -> "8" [] OTHER -> "9"
  IN  <<d((id \div 10000) % 10), d((id \div 1000) % 10), d((id \div 100) % 10),
        d((id \div 10) % 10), d(id % 10)>>

\* a data line (line number k, catalog number id) of n characters
DataLine(k, id, fill, n) == Line(<<k, " ">> \o NoradField(id), fill, n)

NameISS     == Eol(<<"I", "S", "S", " ", " ">>)
NameLong    == Line(<<"N", "O", "A", "A", " ">>, "x", 26) \o <<"\r", "\n">>
NameDigit24 == Eol(Line(<<"3", "C", "A", "T">>, "-", 24))
NameDigit23 == Eol(Line(<<"3", "C", "A", "T">>, "-", 23))
BlankLine   == <<"\n">>
SpaceLine   == Eol(<<" ", " ">>)
Data1       == Eol(DataLine("1", 5, ".", DataWidth))
Data2       == Eol(DataLine("2", 5, ",", DataWidth))
DataLong    == Eol(DataLine("1", 7, "+", DataWidth + 3))
DataShort   == Eol(DataLine("2", 7, "_", DataWidth - 1))

SampleLines == {NameISS, NameLong, NameDigit24, NameDigit23, BlankLine,
                SpaceLine, Data1, Data2, DataLong, DataShort}

\* complete three-line records put in front of the tail
RecA == <<NameISS, Data1, Data2>>
RecB == <<NameLong, DataLine("1", 7, ".", DataWidth) \o <<"\r", "\n">>,
          DataLine("2", 7, ",", DataWidth) \o <<"\r", "\n">>>>
Prefixes == {<<>>, RecA, RecA \o RecB}

\* every sequence over S of length 0..n
RECURSIVE SeqsUpTo(_, _)
SeqsUpTo(S, n) ==
  IF n = 0 THEN {<<>>}
  ELSE LET shorter == SeqsUpTo(S, n - 1)
       IN  shorter \cup {Append(f, x) : f \in shorter, x \in S}

\* the file without the newline that ends its last line
StripFinalEol(f) ==
  IF f = <<>> \/ Len(f[Len(f)]) < 2 THEN f
  ELSE [f EXCEPT ![Len(f)] = SubSeq(@, 1, Len(@) - 1)]

ParserInputs ==
  LET whole == {p \o t : p \in Prefixes, t \in SeqsUpTo(SampleLines, MaxLines)}
  IN  whole \cup {StripFinalEol(f) : f \in whole}

\* what the unwritten getline buffer may hold: a NUL first, or stale bytes
Garbage == {<<>>, <<"?", "?">>}

\* the name readTLEs reports in its diagnostics
SourceName == <<"t", "l", "e">>

----------------------------------------------------------------------------
(* Specification of the parser: readTLEs applied to one file               *)

\* the variables of update and of the catalog, at rest
IngestIdle ==
  /\ manifest = <<>>
  /\ lineNumber = 0
  /\ results = <<>>
  /\ cerr = <<>>
  /\ cout = <<>>
  /\ verbose = FALSE
  /\ idx = 0
  /\ calls = <<>>
  /\ upserts = <<>>

\* the variables of main in a run that has opened its store
MainIdle ==
  /\ lat = 0
  /\ lon = 0
  /\ sourceFile = FALSE
  /\ opened = TRUE
  /\ status = "running"

\* the variables of the view and of the controllers, at rest
ViewIdle ==
  /\ sats = <<>>
  /\ built = <<>>
  /\ fetches = 0
  /\ gui = "runGUI"
  /\ lines = 0
  /\ refreshSecs = -1
  /\ menu = [cur |-> 0, top |-> 0]
  /\ handle = "null"
  /\ info = "under"
  /\ key = "none"
  /\ detail = <<>>
  /\ held = {}

\* the variables of readTLEs, at rest
ParseIdle ==
  /\ input = <<>>
  /\ junk = <<>>
  /\ parsed = [tles |-> <<>>, diags |-> <<>>]

InitParse ==
  /\ pc = "start"
  /\ input \in ParserInputs
  /\ junk = <<>>
  /\ parsed = [tles |-> <<>>, diags |-> <<>>]
  /\ IngestIdle
  /\ ViewIdle
  /\ MainIdle
  /\ db = <<>>
  /\ dbok = TRUE

\* readTLEs(fname, fp)
Parse ==
  /\ pc = "start"
  /\ \E g \in Garbage :
       /\ junk' = g
       /\ parsed' = ReadTLEs(SourceName, input, g)
  /\ pc' = "parsed"
  /\ UNCHANGED <<mainVars, input, ingestVars, dbVars, viewVars, guiVars>>

NextParse == Parse

SpecParse == InitParse /\ [][NextParse]_vars


----------------------------------------------------------------------------
(* DBSQLite (db.cc)                                                        *)

DigitVal(c) ==
  CASE c = "1" -> 1 [] c = "2" -> 2 [] c = "3" -> 3 [] c = "4" -> 4
    [] c = "5" -> 5 [] c = "6" -> 6 [] c = "7" -> 7 [] c = "8" -> 8
    [] c = "9" -> 9 [] OTHER -> 0

RECURSIVE Decimal(_)
Decimal(s) ==
  IF s = <<>> THEN 0
  ELSE 10 * Decimal(SubSeq(s, 1, Len(s) - 1)) + DigitVal(s[Len(s)])

\* Tle::NoradNumber(): the number in columns 3-7 of line 1
NoradNumber(tle) == Decimal(Substr(tle.line1, 2, 5))

\* How SQLite reads q + s + q, the way DBSQLite::update splices a field
\* into its statement: two q in a row inside s are one q of the value; a q
\* left single ends the literal early and the statement does not parse (s
\* is text of a TLE file, not SQL).
SqlLiteral(s, q) ==
  LET Q      == {i \in 1..Len(s) : s[i] = q}
      run(i) == i - (CHOOSE j \in 0..(i - 1) :
                       /\ j = 0 \/ s[j] # q
                       /\ \A k \in (j + 1)..i : s[k] = q)
      kept   == {i \in 1..Len(s) : i \notin Q \/ run(i) % 2 = 0}
      nth(k) == CHOOSE i \in kept : Cardinality({j \in kept : j <= i}) = k
  IN  IF Q = {} THEN [ok |-> TRUE, val |-> s]
      ELSE [ok  |-> \A i \in Q : (i + 1) \in Q \/ run(i) % 2 = 0,
            val |-> [k \in 1..Cardinality(kept) |-> s[nth(k)]]]

\* INSERT OR REPLACE INTO tle, norad INT PRIMARY KEY: the rows holding the
\* new row's key are deleted, then the row is inserted
InsertOrReplace(rows, row) ==
  Append(SelectSeq(rows, LAMBDA r : r.norad # row.norad), row)

\* DBSQLite::update(tle): the table and ok() after the call
DBUpdate(rows, tle) ==
  LET name  == SqlLiteral(tle.name, "'")
      line1 == SqlLiteral(tle.line1, "\"")
      line2 == SqlLiteral(tle.line2, "\"")
  IN  IF name.ok /\ line1.ok /\ line2.ok
        THEN [rows |-> InsertOrReplace(rows,
                         [norad |-> NoradNumber(tle), name |-> name.val,
                          line1 |-> line1.val, line2 |-> line2.val]),
              ok   |-> TRUE]
        ELSE [rows |-> rows, ok |-> FALSE]

\* DBSQLite::fetchTLEs(): SELECT name, line1, line2 FROM tle
FetchTLEs(rows) == [i \in 1..Len(rows) |->
                      Tle(rows[i].name, rows[i].line1, rows[i].line2)]

----------------------------------------------------------------------------
(* tryParseFile, tryParseURL and update (main.cc)                          *)

UrlMark == <<":", "/", "/">>

\* tryParseFile without its first line: fopen on whatever it is given
TryParseFileAnyway(fname, tles, files, g) ==
  IF fname \notin DOMAIN files
    THEN [ret |-> FALSE, tles |-> tles, diags |-> <<>>,
          tried |-> TRUE, success |-> FALSE]
  ELSE LET r == ReadTLEs(fname, files[fname], g)
       IN  [ret |-> TRUE, tles |-> tles \o r.tles, diags |-> r.diags,
            tried |-> TRUE, success |-> TRUE]

\* tryParseFile(fname, tles).  files: the openable paths and their lines.
TryParseFile(fname, tles, files, g) ==
  IF Contains(fname, UrlMark)
    THEN [ret |-> FALSE, tles |-> tles, diags |-> <<>>,
          tried |-> FALSE, success |-> FALSE]
  ELSE IF fname \notin DOMAIN files
    THEN [ret |-> FALSE, tles |-> tles, diags |-> <<>>,
          tried |-> TRUE, success |-> FALSE]
  ELSE LET r == ReadTLEs(fname, files[fname], g)
       IN  [ret |-> TRUE, tles |-> tles \o r.tles, diags |-> r.diags,
            tried |-> TRUE, success |-> TRUE]

\* the value tryParseURL computes from curl_easy_perform's result, as a
\* function of "the transfer succeeded" (CURLE_OK, which is 0)
PerformFlag(fetched) == ~fetched

\* tryParseURL(fname, tles).  net: what the environment does,
\*   setup   - "ok", or which of the early returns is taken
\*   fetched - curl_easy_perform returned CURLE_OK
\*   body    - what the transfer wrote to the temporary file
TryParseURL(fname, tles, net, g) ==
  IF net.setup = "nocurl" \/ ~Contains(fname, UrlMark) \/ net.setup = "notmp"
    THEN [ret |-> FALSE, tles |-> tles, diags |-> <<>>,
          tried |-> FALSE, success |-> FALSE]
  ELSE LET r == ReadTLEs(fname, net.body, g)
       IN  [ret |-> PerformFlag(net.fetched), tles |-> tles \o r.tles,
            diags |-> r.diags, tried |-> TRUE, success |-> net.fetched]

\* update(), main.cc:224-243: the location a manifest line names, or skip
CommentOrSpace == {"#"} \cup Whitespace

\* update() without main.cc:239-240: the comment is not cut off
ManifestEntryUncut(line) ==
  LET st  == FindFirstNotOf(line, Whitespace)
      en0 == FindLastNotOf(line, CommentOrSpace)
  IN  IF st = NPos \/ en0 = NPos THEN [skip |-> TRUE, str |-> <<>>]
      ELSE IF line[st + 1] = "#" THEN [skip |-> TRUE, str |-> <<>>]
      ELSE IF (en0 + 1) - st = 0 THEN [skip |-> TRUE, str |-> <<>>]
      ELSE [skip |-> FALSE, str |-> Substr(line, st, (en0 + 1) - st)]

\* the trimming without the test of line[st]
ManifestEntryUnchecked(line) ==
  LET st  == FindFirstNotOf(line, Whitespace)
      en0 == FindLastNotOf(line, CommentOrSpace)
  IN  IF st = NPos \/ en0 = NPos THEN [skip |-> TRUE, str |-> <<>>]
      ELSE LET comments == FindFirstOf(line, CommentOrSpace, st)
               en == IF comments # NPos THEN comments ELSE en0 + 1
           IN  [skip |-> FALSE, str |-> Substr(line, st, en - st)]

ManifestEntry(line) ==
  LET st  == FindFirstNotOf(line, Whitespace)
      en0 == FindLastNotOf(line, CommentOrSpace)
  IN  IF st = NPos \/ en0 = NPos THEN [skip |-> TRUE, str |-> <<>>]
      ELSE IF line[st + 1] = "#" THEN [skip |-> TRUE, str |-> <<>>]
      ELSE IF (en0 + 1) - st = 0 THEN [skip |-> TRUE, str |-> <<>>]
      ELSE LET comments == FindFirstOf(line, CommentOrSpace, st)
               en == IF comments # NPos THEN comments ELSE en0 + 1
           IN  [skip |-> FALSE, str |-> Substr(line, st, en - st)]

----------------------------------------------------------------------------
(* Inputs of update                                                        *)

\* longest manifest
MaxManifest == 2

LocA    == <<"a">>
LocB    == <<"b">>
LocQ    == <<"q">>
LocNone == <<"x">>
LocUrl  == <<"h", ":", "/", "/", "u">>
LocDead == <<"h", ":", "/", "/", "d">>

NameZarya == Eol(<<"Z", "A", "R", "Y", "A">>)
NameQuote == Eol(<<"O", "'", "N", "E", "I", "L">>)
NameWeb   == Eol(<<"W", "E", "B">>)

\* the files that can be opened
LocalFiles ==
  (LocA :> <<NameISS, Data1, Data2>>)
  @@ (LocB :> <<NameZarya, Eol(DataLine("1", 5, "b", DataWidth)),
                Eol(DataLine("2", 5, "b", DataWidth)),
                NameLong, Eol(DataLine("1", 7, "b", DataWidth)),
                Eol(DataLine("2", 7, "b", DataWidth))>>)
  @@ (LocQ :> <<NameQuote, Eol(DataLine("1", 5, "q", DataWidth)),
                Eol(DataLine("2", 5, "q", DataWidth))>>)

\* what the servers hold
Web ==
  (LocUrl :> <<NameWeb, Eol(DataLine("1", 5, "w", DataWidth)),
               Eol(DataLine("2", 5, "w", DataWidth))>>)

\* a location with a comment right behind it
LineB    == LocB \o <<"#", "c">>
\* a location, white space, a comment with a '#' in it, and a CR at the end
LineDead == LocDead \o <<" ", "\t", "#", " ", "x", "#", "y", "\r">>

ManifestLines ==
  {LocA, LineB, LocQ, LocNone, LocUrl, LineDead,
   <<"#", " ", "a">>, <<>>, <<" ", "a", " ", "#", "c">>,
   <<"#", "#">>, <<" ", "\t", "\r">>, <<" ", "#", "b">>}

Manifests == SeqsUpTo(ManifestLines, MaxManifest)

\* what the network can do to a fetch of loc: setup is "ok" or the early
\* return taken; a transfer that succeeds delivers the resource, one that
\* fails leaves some leading lines of it (none for an unknown host)
Nets(loc) ==
  IF ~Contains(loc, UrlMark)
    THEN {[setup |-> "ok", fetched |-> FALSE, body |-> <<>>]}
  ELSE {[setup |-> su, fetched |-> FALSE, body |-> <<>>] :
          su \in {"nocurl", "notmp"}}
       \cup {[setup |-> "ok", fetched |-> FALSE, body |-> <<>>]}
       \cup (IF loc \in DOMAIN Web
               THEN {[setup |-> "ok", fetched |-> TRUE, body |-> Web[loc]]}
                    \cup {[setup |-> "ok", fetched |-> FALSE,
                           body |-> SubSeq(Web[loc], 1, k)] :
                            k \in 1..Len(Web[loc])}
               ELSE {})

\* rows a catalog may hold from an earlier run
OldRow == [norad |-> 5, name |-> <<"O", "L", "D">>,
           line1 |-> DataLine("1", 5, "o", DataWidth),
           line2 |-> DataLine("2", 5, "o", DataWidth)]
InitialStores == {<<>>, <<OldRow>>}

\* the manifest's name in update's diagnostics
SourceFile == <<"s", "r", "c">>

----------------------------------------------------------------------------
(* Specification of the ingestion: update(sourceFile, db, verbose)         *)

InitIngest ==
  /\ pc = "manifest"
  /\ manifest \in Manifests
  /\ verbose \in BOOLEAN
  /\ db \in InitialStores
  /\ dbok = TRUE
  /\ lineNumber = 0
  /\ results = <<>>
  /\ cerr = <<>>
  /\ cout = <<>>
  /\ idx = 0
  /\ calls = <<>>
  /\ upserts = <<>>
  /\ ParseIdle
  /\ ViewIdle
  /\ MainIdle

Diag(what, n, src) == [what |-> what, lineNo |-> n, src |-> src]

Call(fn, loc, n, r, before) ==
  [fn |-> fn, loc |-> loc, lineNo |-> n, tried |-> r.tried,
   success |-> r.success, ret |-> r.ret, added |-> Len(r.tles) - before]

\* one pass of update's while loop (main.cc:222-252)
ReadManifestLine ==
  /\ pc = "manifest"
  /\ lineNumber < Len(manifest)
  /\ LET n == lineNumber + 1
         e == ManifestEntry(manifest[n])
     IN  /\ lineNumber' = n
         /\ IF e.skip
              THEN UNCHANGED <<results, cerr, calls>>
              ELSE \E g \in Garbage, net \in Nets(e.str) :
                     LET f  == TryParseFile(e.str, results, LocalFiles, g)
                         u  == TryParseURL(e.str, f.tles, net, g)
                         fc == Call("tryParseFile", e.str, n, f, Len(results))
                         uc == Call("tryParseURL", e.str, n, u, Len(f.tles))
                         ld == <<Diag("loading", n, e.str)>>
                     IN  IF f.ret
                           THEN /\ results' = f.tles
                                /\ cerr' = cerr \o ld \o f.diags
                                /\ calls' = Append(calls, fc)
                           ELSE /\ results' = u.tles
                                /\ cerr' = cerr \o ld \o f.diags \o u.diags \o
                                     (IF u.ret THEN <<>>
                                      ELSE <<Diag("unknown", n, SourceFile)>>)
                                /\ calls' = calls \o <<fc, uc>>
  /\ UNCHANGED <<mainVars, pc, manifest, verbose, cout, idx, upserts, dbVars, parseVars,
                 viewVars, guiVars>>

\* std::getline fails at the end of the manifest: on to "Update the database"
EndOfManifest ==
  /\ pc = "manifest"
  /\ lineNumber = Len(manifest)
  /\ pc' = "upsert"
  /\ UNCHANGED <<mainVars, parseVars, ingestVars, dbVars, viewVars, guiVars>>

\* one pass of update's for loop (main.cc:256-263)
UpsertRecord ==
  /\ pc = "upsert"
  /\ idx < Len(results)
  /\ LET tle == results[idx + 1]
         r   == DBUpdate(db, tle)
     IN  /\ db' = r.rows
         /\ dbok' = r.ok
         /\ upserts' = Append(upserts, tle)
         /\ cout' = IF verbose
                      THEN Append(cout, [n |-> Len(cout) + 1,
                                         total |-> Len(results),
                                         norad |-> NoradNumber(tle),
                                         name |-> tle.name, good |-> r.ok])
                      ELSE cout
  /\ idx' = idx + 1
  /\ UNCHANGED <<mainVars, pc, manifest, lineNumber, results, cerr, verbose, calls,
                 parseVars, viewVars, guiVars>>

\* update returns
EndOfBatch ==
  /\ pc = "upsert"
  /\ idx = Len(results)
  /\ pc' = "done"
  /\ UNCHANGED <<mainVars, parseVars, ingestVars, dbVars, viewVars, guiVars>>

NextIngest == ReadManifestLine \/ EndOfManifest \/ UpsertRecord \/ EndOfBatch

SpecIngest == InitIngest /\ [][NextIngest]_vars

----------------------------------------------------------------------------
(* SatLookAngles and getSatellitesAndLookAngles (main.hh, main.cc)         *)

Min(a, b) == IF a < b THEN a ELSE b
Max(a, b) == IF a < b THEN b ELSE a

\* SGP4(tle) or FindPosition(_time) throws instead of giving a position
PropagationFailed == -1

\* A look angle is taken as its range, the only field the code compares.
\* What SGP4 answers is the environment's: one answer per entry, per call,
\* and no answer from the first call that throws on.
Thrown(la, k) ==
  [i \in 1..Len(la) |-> IF i < k THEN la[i] ELSE PropagationFailed]

\* the entries before the first one whose propagation throws
Reached(la) ==
  IF \E i \in 1..Len(la) : la[i] = PropagationFailed
    THEN (CHOOSE i \in 1..Len(la) :
            /\ la[i] = PropagationFailed
            /\ \A j \in 1..(i - 1) : la[j] # PropagationFailed) - 1
    ELSE Len(la)

\* SatLookAngles::add for each tle in turn, up to the first that throws
Add(tles, la) == [i \in 1..Reached(la) |-> [tle |-> tles[i], range |-> la[i]]]

\* SatLookAngles::add called again for entries the view already holds
UpdateByAdding(s, la) == s \o Add([i \in 1..Len(s) |-> s[i].tle], la)

\* SatLookAngles::updateTimeAndPositions: every entry's look angle is
\* assigned in place, up to the first whose propagation throws
UpdateTimeAndPositions(s, la) ==
  [i \in 1..Len(s) |-> IF i <= Reached(la)
                         THEN [tle |-> s[i].tle, range |-> la[i]]
                         ELSE s[i]]

Sorted(s) == \A i, j \in 1..Len(s) : i < j => s[i].range <= s[j].range

\* std::sort with the comparator a.range > b.range
SortDescending(s) ==
  {t \in {[i \in 1..Len(s) |-> s[p[i]]] : p \in Permutations(1..Len(s))} :
     \A i, j \in 1..Len(s) : i < j => t[i].range >= t[j].range}

\* SatLookAngles::sort: std::sort with a.range < b.range; the order it
\* leaves entries of equal range in is unspecified
Sort(s) ==
  {t \in {[i \in 1..Len(s) |-> s[p[i]]] : p \in Permutations(1..Len(s))} :
     Sorted(t)}

----------------------------------------------------------------------------
(* The menu library, as runGUI and render drive it                         *)

\* rows given to set_menu_format: (size_t)rows - 4 of min(LINES, 79) in
\* runGUI, (size_t)rows - 5 of max(LINES, 50) in render
FormatRows(g, l) ==
  IF g = "runGUI" THEN Min(l, 79) - 4 ELSE Max(l, 50) - 5

\* the rows of the menu that are visible: std::min(sats.size(), ...); a
\* negative difference is a huge size_t
ARows(n, g, l) == IF FormatRows(g, l) < 0 THEN n ELSE Min(n, FormatRows(g, l))

\* new_menu: the first item is current, the first row is on top
NewMenu == [cur |-> 0, top |-> 0]

\* the end of menu_driver: the top row follows the current item
NewTopRow(m, a) ==
  [cur |-> m.cur,
   top |-> IF m.cur < m.top THEN m.cur
           ELSE IF m.cur >= m.top + a THEN m.cur - a + 1 ELSE m.top]

\* REQ_DOWN_ITEM with O_NONCYCLIC off and no item below left unchecked
ReqDownItemUnchecked(m, n, a) == NewTopRow([m EXCEPT !.cur = m.cur + 1], a)

\* REQ_DOWN_ITEM: denied on the last item (menus are not cyclic by default)
ReqDownItem(m, n, a) ==
  IF m.cur + 1 < n THEN NewTopRow([m EXCEPT !.cur = m.cur + 1], a) ELSE m

\* REQ_UP_ITEM: denied on the first item
ReqUpItem(m, n, a) ==
  IF m.cur > 0 THEN NewTopRow([m EXCEPT !.cur = m.cur - 1], a) ELSE m

\* REQ_SCR_DPAGE: scrolls by the rows below the window, a page at most
ReqScrDPage(m, n, a) ==
  LET rdiff == Min(n - (a + m.top), a)
  IN  IF rdiff <= 0 THEN m
      ELSE NewTopRow([cur |-> Min(m.cur + rdiff, n - 1),
                      top |-> m.top + rdiff], a)

\* REQ_SCR_UPAGE: scrolls by the rows above the window, a page at most
ReqScrUPage(m, n, a) ==
  LET rdiff == Min(a, m.top)
  IN  IF rdiff <= 0 THEN m
      ELSE NewTopRow([cur |-> Max(m.cur - rdiff, 0),
                      top |-> m.top - rdiff], a)

\* set_current_item on a menu just made: the item's row becomes the top row
\* when it is below the window
SetCurrentItem(curIdx, n, a) ==
  IF curIdx >= n THEN NewMenu
  ELSE [cur |-> curIdx, top |-> IF curIdx >= a THEN curIdx ELSE 0]

\* item_index(current_item(menu)): a menu made from an array without items
\* has no current item, and item_index of no item is ERR (-1)
ItemIndex(m, n) == IF n = 0 THEN -1 ELSE m.cur

\* SatLookAngles::operator[](size_t index): assert(index < size()); an int
\* below zero converts to a size_t above every size
IndexValid(index, n) == index >= 0 /\ index < n

\* What a call on a MENU that was freed can do: the allocator gave the
\* address to the menu made since and the call acts on that one ("alias"),
\* the call works on what the freed memory holds and the posted menu is
\* not touched ("inert"), or the process dies ("crash").
StaleOutcomes == {"alias", "inert", "crash"}

----------------------------------------------------------------------------
(* Windows, panels and the curses session                                  *)

\* a wait that is armed whatever _refreshSecs is
MsecsArmed(secs) == IF secs < 0 THEN 0 ELSE secs

\* const int msecs = (_refreshSecs < 0) ? -1 : _refreshSecs
Msecs(secs) == IF secs < 0 THEN -1 ELSE secs

\* what getch can return without a key pressed: ERR once the wait of
\* timeout(msecs) runs out; a negative msecs waits for a key for ever, and
\* that is how curses starts (runGUI never calls timeout)
Expiry(g, secs) ==
  IF g = "render" /\ Msecs(secs) >= 0 THEN {"ERR"} ELSE {}

\* updateInfoWindow(infoWin, sat): the window is filled from sat.first
UpdateInfoWindow(sat) == sat.tle

\* What the controller has allocated when it enters its key loop, by kind:
\* the session (initscr), the arrays, the main window, and from the first
\* updateMenu the items (one per entry), the menu and the window derwin
\* makes; in render the info window and the two panels as well.
StartResources(g, n) ==
  {"curses", "itemArray", "itemStrs", "win", "sub", "menu"}
    \cup (IF n > 0 THEN {"items"} ELSE {})
    \cup (IF g = "render" THEN {"infoWin", "infoPanel", "mainPanel"} ELSE {})

\* The cleanup after the loop.  free_item refuses an item that is connected
\* to a menu, and every item is (free_menu is not called); delwin refuses a
\* window that has a sub-window; delete[] and del_panel do release.  The
\* session is ended by endwin: at the end of runGUI, in ~DisplayNCurses
\* for render.
Cleanup(g, h) ==
  h \ ({"itemArray", "itemStrs", "curses"}
         \cup (IF g = "render" THEN {"mainPanel", "infoPanel"} ELSE {}))

----------------------------------------------------------------------------
(* Inputs of the view and of the controllers                               *)

SatRow(i) == [norad |-> i, name |-> <<"S", "A", "T">>,
              line1 |-> DataLine("1", i, ".", DataWidth),
              line2 |-> DataLine("2", i, ".", DataWidth)]

\* the catalogs the view is built from
ViewStores == {<<>>, <<SatRow(1)>>, <<SatRow(1), SatRow(2), SatRow(3)>>}

\* a record another process upserts while the view is on screen: new
\* elements for satellite 1
LaterTle == Tle(<<"N", "E", "W">>, DataLine("1", 1, "n", DataWidth),
                DataLine("2", 1, "n", DataWidth))

\* ranges of the catalog's satellites, in catalog order, at instants the
\* view may be built or refreshed at
SampleSkies == {<<>>, <<100>>, <<300>>,
                <<500, 100, 300>>, <<50, 400, 200>>, <<300, 100, 300>>}
\* the same with a propagation that throws, at each place it can
FailingSkies ==
  {Thrown(<<100>>, 1)} \cup {Thrown(<<500, 100, 300>>, k) : k \in 1..3}
Skies(n) == {la \in SampleSkies \cup FailingSkies : Len(la) = n}

\* LINES of the terminal: a short one, so that the catalog fills more than
\* runGUI's window
Terminals == {6}

\* DisplayNCurses(refreshSecs): -1 unless given
RefreshSecs == {-1, 0}

----------------------------------------------------------------------------
(* Specification of the view: main builds it, a controller shows it        *)

InitGui ==
  /\ pc = "main"
  /\ db \in ViewStores
  /\ dbok = TRUE
  /\ sats = <<>>
  /\ built = <<>>
  /\ fetches = 0
  /\ gui \in {"runGUI", "render"}
  /\ lines \in Terminals
  /\ refreshSecs \in (IF gui = "render" THEN RefreshSecs ELSE {-1})
  /\ menu = NewMenu
  /\ handle = "null"
  /\ info = "under"
  /\ key = "none"
  /\ detail = <<>>
  /\ held = {}
  /\ ParseIdle
  /\ IngestIdle
  /\ MainIdle

\* getSatellitesAndLookAngles(lat, lon, alt, db)
GetSatellitesAndLookAngles ==
  /\ pc = "main"
  /\ LET tles == FetchTLEs(db)
     IN  /\ built' = tles
         /\ fetches' = fetches + 1
         /\ \E la \in Skies(Len(tles)) :
              IF Reached(la) < Len(tles)
                THEN /\ sats' = Add(tles, la)
                     /\ pc' = "aborted"
                ELSE /\ sats' \in Sort(Add(tles, la))
                     /\ pc' = "gui"
  /\ UNCHANGED <<mainVars, parseVars, ingestVars, dbVars, guiVars>>

\* runGUI / render up to the key loop: the windows, the first
\* updateMenu(false), which leaves the menu it makes in menu
StartGUI ==
  /\ pc = "gui"
  /\ pc' = "loop"
  /\ menu' = IF gui = "runGUI" THEN NewMenu
             ELSE SetCurrentItem(0, Len(sats), ARows(Len(sats), gui, lines))
  /\ handle' = "live"
  /\ info' = "under"
  /\ held' = StartResources(gui, Len(sats))
  /\ UNCHANGED <<mainVars, parseVars, ingestVars, dbVars, viewVars, gui, lines,
                 refreshSecs, key, detail>>

\* menu_driver(menu, req) with `moved` what req makes of the posted menu:
\* the posted menu is driven when menu points to it; a menu without items
\* is not posted and req is refused
MenuDriver(moved) ==
  /\ IF handle = "live"
       THEN menu' = (IF Len(sats) = 0 THEN menu ELSE moved) /\ pc' = pc
       ELSE \E o \in StaleOutcomes :
              /\ menu' = IF o = "alias" /\ Len(sats) > 0 THEN moved ELSE menu
              /\ pc' = IF o = "crash" THEN "aborted" ELSE pc
  /\ UNCHANGED <<mainVars, parseVars, ingestVars, dbVars, viewVars, gui, lines,
                 refreshSecs, handle, info, detail, held>>

\* case KEY_DOWN
KeyDown ==
  /\ pc = "loop"
  /\ key' = "KEY_DOWN"
  /\ MenuDriver(ReqDownItem(menu, Len(sats), ARows(Len(sats), gui, lines)))

\* case KEY_UP
KeyUp ==
  /\ pc = "loop"
  /\ key' = "KEY_UP"
  /\ MenuDriver(ReqUpItem(menu, Len(sats), ARows(Len(sats), gui, lines)))

\* case KEY_NPAGE
KeyNPage ==
  /\ pc = "loop"
  /\ key' = "KEY_NPAGE"
  /\ MenuDriver(ReqScrDPage(menu, Len(sats), ARows(Len(sats), gui, lines)))

\* case KEY_PPAGE
KeyPPage ==
  /\ pc = "loop"
  /\ key' = "KEY_PPAGE"
  /\ MenuDriver(ReqScrUPage(menu, Len(sats), ARows(Len(sats), gui, lines)))

\* case 'd' (render): the info panel is hidden when it is not, else it is
\* filled from sats[item_index(current_item(menu))] and shown on top; when
\* operator[]'s assertion fails the process is aborted with the assertion
\* on stderr
KeyDetails ==
  /\ pc = "loop"
  /\ gui = "render"
  /\ key' = "d"
  /\ IF info # "hidden"
       THEN info' = "hidden" /\ detail' = <<>> /\ pc' = pc /\ cerr' = cerr
       ELSE \E o \in (IF handle = "live" THEN {"alias"} ELSE StaleOutcomes) :
              IF o = "crash"
                THEN /\ pc' = "aborted"
                     /\ UNCHANGED <<info, detail, cerr>>
                ELSE \E index \in (IF o = "alias" \/ Len(sats) = 0
                                     THEN {ItemIndex(menu, Len(sats))}
                                     ELSE 0..(Len(sats) - 1)) :
                       IF IndexValid(index, Len(sats))
                         THEN /\ detail' = UpdateInfoWindow(sats[index + 1])
                              /\ info' = "shown"
                              /\ pc' = pc
                              /\ cerr' = cerr
                         ELSE /\ cerr' = Append(cerr,
                                           [what |-> "assert", index |-> index,
                                            size |-> Len(sats)])
                              /\ pc' = "aborted"
                              /\ UNCHANGED <<info, detail>>
  /\ UNCHANGED <<mainVars, parseVars, manifest, lineNumber, results, cout,
                 verbose, idx, calls, upserts, dbVars, viewVars, gui, lines,
                 refreshSecs, menu, handle, held>>

\* case ' ' (and, in render, ERR: the wait set by timeout(msecs) ran out
\* with no key): updateMenu(true)
Refresh ==
  /\ pc = "loop"
  /\ key' \in {" "} \cup Expiry(gui, refreshSecs)
  /\ LET n == Len(sats)
         a == ARows(n, gui, lines)
     IN  \E la \in Skies(n) :
           IF Reached(la) < n
             THEN /\ sats' = UpdateTimeAndPositions(sats, la)
                  /\ pc' = "aborted"
                  /\ UNCHANGED <<menu, handle>>
           ELSE
             /\ sats' \in Sort(UpdateTimeAndPositions(sats, la))
             /\ IF gui = "runGUI"
                  \* the lambda: the new menu replaces the old in menu
                  THEN menu' = NewMenu /\ handle' = "live" /\ pc' = pc
                  \* the function: the cursor is read through menu and set
                  \* again; the menu returned is not kept
                  ELSE \E o \in (IF handle = "live" THEN {"alias"}
                                 ELSE StaleOutcomes) :
                       \* free_menu(menu) comes before new_menu
                       IF o = "crash"
                         THEN pc' = "aborted" /\ UNCHANGED <<menu, handle>>
                         ELSE \E curIdx \in (IF o = "alias" THEN {menu.cur}
                                             ELSE 0..Max(n - 1, 0)) :
                                /\ menu' = SetCurrentItem(curIdx, n, a)
                                /\ handle' = "stale"
                                /\ pc' = pc
  /\ UNCHANGED <<mainVars, parseVars, ingestVars, dbVars, built, fetches, gui, lines,
                 refreshSecs, info, detail, held>>

\* 'q': the loop ends, the controller cleans up and returns
Quit ==
  /\ pc = "loop"
  /\ key' = "q"
  /\ pc' = "done"
  /\ held' = Cleanup(gui, held)
  /\ UNCHANGED <<mainVars, parseVars, ingestVars, dbVars, viewVars, gui, lines,
                 refreshSecs, menu, handle, info, detail>>

\* another process updates the catalog file: DBSQLite::update there
ExternalUpdate ==
  /\ pc \in {"gui", "loop"}
  /\ db' = DBUpdate(db, LaterTle).rows
  /\ UNCHANGED <<mainVars, pc, parseVars, ingestVars, dbok, viewVars, guiVars>>

NextGui ==
  \/ GetSatellitesAndLookAngles
  \/ StartGUI
  \/ KeyDown
  \/ KeyUp
  \/ KeyNPage
  \/ KeyPPage
  \/ KeyDetails
  \/ Refresh
  \/ Quit
  \/ ExternalUpdate

SpecGui == InitGui /\ [][NextGui]_vars

----------------------------------------------------------------------------
(* Specification of main: a run without -g                                 *)

\* -x and -y in degrees, as std::stod hands them to main
Observers == {<<0, 0>>, <<90, 180>>, <<-90, -180>>, <<45, -120>>,
              <<91, 0>>, <<0, 181>>, <<-91, 0>>, <<0, -181>>, <<91, 181>>}

\* a check that looks at the latitude only
BadLatitude(x, y) == x > 90 \/ x < -90

\* lat > 90.0 || lat < -90.0 || lon > 180.0 || lon < -180.0
InvalidCoordinates(x, y) == x > 90 \/ x < -90 \/ y > 180 \/ y < -180

\* the files -u may name
MainManifests == {<<LocA>>, <<LocQ>>, <<LocNone>>, <<<<"#", " ", "a">>>>}

InitMain ==
  /\ pc = "args"
  /\ \E o \in Observers : lat = o[1] /\ lon = o[2]
  /\ sourceFile \in BOOLEAN
  /\ manifest \in (IF sourceFile THEN MainManifests ELSE {<<>>})
  /\ verbose \in BOOLEAN
  /\ opened = FALSE
  /\ status = "running"
  /\ db \in InitialStores
  /\ dbok = TRUE
  /\ lineNumber = 0
  /\ results = <<>>
  /\ cerr = <<>>
  /\ cout = <<>>
  /\ idx = 0
  /\ calls = <<>>
  /\ upserts = <<>>
  /\ ParseIdle
  /\ sats = <<>>
  /\ built = <<>>
  /\ fetches = 0
  /\ gui = "none"
  /\ lines = 0
  /\ refreshSecs = -1
  /\ menu = NewMenu
  /\ handle = "null"
  /\ info = "under"
  /\ key = "none"
  /\ detail = <<>>
  /\ held = {}

\* "Ensure we have valid coords."
CheckCoordinates ==
  /\ pc = "args"
  /\ IF InvalidCoordinates(lat, lon)
       THEN /\ cerr' = Append(cerr, Diag("coordinates", 0, <<>>))
            /\ status' = "failure"
            /\ pc' = "exit"
       ELSE /\ pc' = "open"
            /\ UNCHANGED <<cerr, status>>
  /\ UNCHANGED <<parseVars, manifest, lineNumber, results, cout, verbose, idx,
                 calls, upserts, dbVars, viewVars, guiVars, lat, lon,
                 sourceFile, opened>>

\* DBSQLite db(dbFile); if (!db.ok()) ...: sqlite3_open may fail
OpenStore ==
  /\ pc = "open"
  /\ opened' = TRUE
  /\ \E ok \in BOOLEAN :
       /\ dbok' = ok
       /\ IF ok
            THEN /\ pc' = IF sourceFile THEN "manifest" ELSE "main"
                 /\ UNCHANGED <<cerr, status>>
            ELSE /\ cerr' = Append(cerr, Diag("database", 0, <<>>))
                 /\ status' = "failure"
                 /\ pc' = "exit"
  /\ UNCHANGED <<parseVars, manifest, lineNumber, results, cout, verbose, idx,
                 calls, upserts, db, viewVars, guiVars, lat, lon, sourceFile>>

\* update(sourceFile, db, verbose) has returned
UpdateReturns ==
  /\ pc = "done"
  /\ pc' = "main"
  /\ UNCHANGED <<parseVars, ingestVars, dbVars, viewVars, guiVars, mainVars>>

\* displayResults(TLEsAndLAs); return 0
DisplayResults ==
  /\ pc = "gui"
  /\ gui = "none"
  /\ cout' = cout \o [i \in 1..Len(sats) |->
                       [n |-> i, total |-> Len(sats),
                        name |-> sats[i].tle.name, range |-> sats[i].range]]
  /\ status' = "success"
  /\ pc' = "exit"
  /\ UNCHANGED <<parseVars, manifest, lineNumber, results, cerr, verbose, idx,
                 calls, upserts, dbVars, viewVars, guiVars, lat, lon,
                 sourceFile, opened>>

NextMain ==
  \/ CheckCoordinates
  \/ OpenStore
  \/ ReadManifestLine
  \/ EndOfManifest
  \/ UpsertRecord
  \/ EndOfBatch
  \/ UpdateReturns
  \/ GetSatellitesAndLookAngles
  \/ DisplayResults

SpecMain == InitMain /\ [][NextMain]_vars

----------------------------------------------------------------------------
(* Claims about the parser (checked under SpecParse)                       *)

\* s without the whitespace at its end
RECURSIVE RTrim(_)
RTrim(s) ==
  IF s = <<>> \/ s[Len(s)] \notin Whitespace THEN s
  ELSE RTrim(SubSeq(s, 1, Len(s) - 1))

\* the characters of a line, without its line terminator ("\n" or "\r\n")
Chomp(l) ==
  LET a == IF l # <<>> /\ l[Len(l)] = "\n" THEN SubSeq(l, 1, Len(l) - 1) ELSE l
  IN  IF a # <<>> /\ a[Len(a)] = "\r" THEN SubSeq(a, 1, Len(a) - 1) ELSE a

\* the first n characters of s
Take(s, n) == SubSeq(s, 1, IF Len(s) < n THEN Len(s) ELSE n)

\* a two-line record: a first line of at least 25 characters that does not
\* start with a letter, then one more line
TwoLineInput ==
  /\ Len(input) = 2
  /\ Len(Chomp(input[1])) >= 25
  /\ ~IsAlpha(input[1][1])

\* C1: readTLEs on exactly one two-line record (first line of >= 25
\* characters, not starting with a letter) returns exactly one record with
\* an empty name, whose line 1 is the first input line and whose line 2 is
\* the second input line.
C1_TwoLineRecord ==
  (pc = "parsed" /\ TwoLineInput) =>
    /\ Len(parsed.tles) = 1
    /\ parsed.tles[1].name = <<>>
    /\ parsed.tles[1].line1 = Take(Chomp(input[1]), DataWidth)
    /\ parsed.tles[1].line2 = Take(Chomp(input[2]), DataWidth)

\* a name line of a well-formed record: it begins with a letter
WellFormedName(l) == l # <<>> /\ IsAlpha(l[1])

\* a data line of exactly 69 characters (terminator not counted)
IsData69(l) == Len(Chomp(l)) = DataWidth

\* whole three-line records followed by the first line, or the first two
\* lines, of one more
EndsMidRecord ==
  /\ Len(input) % 3 # 0
  /\ \A i \in 1..Len(input) :
       IF i % 3 = 1 THEN WellFormedName(input[i]) ELSE IsData69(input[i])

\* the records of the whole three-line groups of the input, in input order
CompleteRecords ==
  [k \in 1..(Len(input) \div 3) |->
     Tle(Take(RTrim(input[3 * k - 2]), NameWidth),
         Chomp(input[3 * k - 1]), Chomp(input[3 * k]))]

\* C6: when the input ends in the middle of a record, readTLEs returns
\* exactly the records completed before that point, in input order, emits
\* no record for the partial trailing lines, and emits one diagnostic that
\* names the source and the 1-based number of the missing line.
C6_TruncatedInput ==
  (pc = "parsed" /\ EndsMidRecord) =>
    /\ parsed.tles = CompleteRecords
    /\ Len(parsed.diags) = 1
    /\ parsed.diags[1].src = SourceName
    /\ parsed.diags[1].lineNo = Len(input) + 1

\* a well-formed three-line record: a name line, then two 69-character
\* data lines
ThreeLineInput ==
  /\ Len(input) = 3
  /\ WellFormedName(input[1])
  /\ IsData69(input[2])
  /\ IsData69(input[3])

\* C7: readTLEs on a well-formed three-line record returns exactly one
\* record whose name is the name line with trailing whitespace removed and
\* cut to at most 22 characters, and whose line 1 and line 2 are the two
\* 69-character data lines unchanged.
C7_ThreeLineRecord ==
  (pc = "parsed" /\ ThreeLineInput) =>
    /\ Len(parsed.tles) = 1
    /\ parsed.tles[1].name = Take(RTrim(input[1]), NameWidth)
    /\ Len(parsed.tles[1].name) <= NameWidth
    /\ parsed.tles[1].line1 = Chomp(input[2])
    /\ parsed.tles[1].line2 = Chomp(input[3])

\* C7's case: a three-line record whose name had whitespace to trim and
\* more than 22 characters to cut, parsed while the end-of-file read found
\* stale bytes
C7_Witness ==
  /\ pc = "parsed"
  /\ ThreeLineInput
  /\ junk # <<>>
  /\ Len(RTrim(input[1])) > NameWidth
  /\ Len(input[1]) > Len(RTrim(input[1]))
  /\ Len(parsed.tles) = 1
  /\ Len(parsed.tles[1].name) = NameWidth


----------------------------------------------------------------------------
(* Claims about the ingestion and the catalog (checked under SpecIngest)   *)

\* the calls update made for manifest line n
CallsAt(n) == {i \in 1..Len(calls) : calls[i].lineNo = n}

RECURSIVE SumAdded(_)
SumAdded(I) ==
  IF I = {} THEN 0
  ELSE LET i == CHOOSE j \in I : TRUE
       IN  calls[i].added + SumAdded(I \ {i})

\* manifest line n named a location, and neither the file could be opened
\* nor a fetch of it succeeded
Unresolved(n) ==
  /\ CallsAt(n) # {}
  /\ \A i \in CallsAt(n) : ~calls[i].success

UnknownDiags(n) ==
  {i \in 1..Len(cerr) : cerr[i].what = "unknown" /\ cerr[i].lineNo = n}

\* C2: every manifest entry that is neither an openable local file nor a
\* remote locator whose fetch succeeds adds zero records to the batch and
\* causes exactly one 'Unknown entry' diagnostic carrying its manifest line
\* number, and all later manifest entries are still processed.
C2_UnresolvedEntry ==
  /\ \A n \in 1..lineNumber :
       Unresolved(n) =>
         /\ SumAdded(CallsAt(n)) = 0
         /\ Cardinality(UnknownDiags(n)) = 1
  /\ pc # "manifest" => lineNumber = Len(manifest)

\* C3: the source loader's found flag is true exactly when the applicable
\* resolution path succeeded: for a location containing "://" tryParseURL
\* returns true iff the fetch completed successfully, for a location
\* without "://" tryParseFile returns true iff the file could be opened.
C3_FoundFlag ==
  \A i \in 1..Len(calls) :
    LET c == calls[i]
    IN  /\ (c.fn = "tryParseURL" /\ Contains(c.loc, UrlMark))
             => (c.ret <=> c.success)
        /\ (c.fn = "tryParseFile" /\ ~Contains(c.loc, UrlMark))
             => (c.ret <=> c.success)

\* the rows of the catalog that hold catalog number id
RowsOf(id) == {i \in 1..Len(db) : db[i].norad = id}

\* the catalog holds exactly one row for tle's number, with tle's fields
StoredAs(tle) ==
  \E i \in 1..Len(db) :
    /\ RowsOf(NoradNumber(tle)) = {i}
    /\ db[i].name = tle.name
    /\ db[i].line1 = tle.line1
    /\ db[i].line2 = tle.line2

\* C4: the store holds at most one row per catalog identifier, and after
\* two successive upserts of records with the same identifier it holds
\* exactly one row for it, with the second record's name, line 1 and line 2.
C4_UpsertReplaces ==
  /\ \A i, j \in 1..Len(db) : db[i].norad = db[j].norad => i = j
  /\ LET n == Len(upserts)
     IN  (n >= 2 /\ NoradNumber(upserts[n - 1]) = NoradNumber(upserts[n]))
           => StoredAs(upserts[n])

\* the last record of the batch with the same catalog number as results[i]
IsLastOfItsId(i) ==
  \A j \in (i + 1)..Len(results) :
    NoradNumber(results[j]) # NoradNumber(results[i])

\* C5: update() performs no upsert until every manifest location has been
\* processed, then upserts every accumulated record exactly once in
\* accumulation order; so when two sources hold a record with the same
\* catalog identifier, the row stored after ingestion is the one from the
\* source later in the manifest.
C5_UpsertAfterManifest ==
  /\ pc = "manifest" => upserts = <<>>
  /\ pc # "manifest" => upserts = SubSeq(results, 1, idx)
  /\ pc = "done" =>
       /\ upserts = results
       /\ \A i, j \in 1..Len(results) :
            (i < j /\ NoradNumber(results[i]) = NoradNumber(results[j])
               /\ IsLastOfItsId(j)) => StoredAs(results[j])

----------------------------------------------------------------------------
(* Claims about the view and the cursor (checked under SpecGui)            *)

\* the view is on screen or was: built, and no propagation has thrown
ViewBuilt == pc \in {"gui", "loop", "done"}

\* the last key the loop read asked for a refresh
Refreshed == pc = "loop" /\ key \in {" ", "ERR"}

Ranges(s) == [i \in 1..Len(s) |-> s[i].range]
Tles(s) == [i \in 1..Len(s) |-> s[i].tle]

\* s and t hold the same elements, each as many times
SameRecords(s, t) ==
  /\ Len(s) = Len(t)
  /\ \E p \in Permutations(1..Len(s)) : \A i \in 1..Len(s) : s[i] = t[p[i]]

\* C8: once the view is built, and after every refresh, its entries are in
\* ascending order of range: no entry has a larger range than a later one.
C8_SortedByRange == ViewBuilt => Sorted(sats)

\* the catalog's three satellites, built at any ranges, are refreshed at
\* ranges 50, 400, 200 and shown as 50, 200, 400: the first, the third, the
\* second
C8_Witness ==
  /\ Refreshed
  /\ built = FetchTLEs(<<SatRow(1), SatRow(2), SatRow(3)>>)
  /\ Ranges(sats) = <<50, 200, 400>>
  /\ Tles(sats) = <<built[1], built[3], built[2]>>

\* C9: the view holds exactly the records fetched when it was built, each
\* once, whatever refreshes and changes of the store have happened since;
\* the store is read once, by the build, and no step of a refresh reads it
\* or changes the records.
C9_RefreshKeepsRecords ==
  /\ [](ViewBuilt => SameRecords(Tles(sats), built) /\ fetches = 1)
  /\ [][pc = "loop" /\ key' \in {" ", "ERR"}
          => /\ SameRecords(Tles(sats'), Tles(sats))
             /\ fetches' = fetches
             /\ built' = built]_vars

\* the store no longer holds what the view was built from, and a refresh
\* shows the three records of the build at new ranges
C9_Witness ==
  /\ Refreshed
  /\ Len(built) = 3
  /\ FetchTLEs(db) # built
  /\ \E i \in 1..Len(db) : db[i].name = LaterTle.name
  /\ Ranges(sats) = <<50, 200, 400>>

\* C10: while the view has entries the cursor is one of 0 .. size - 1; a
\* move up with the cursor at 0 leaves it at 0 and a move down with the
\* cursor at size - 1 leaves it at size - 1.
C10_CursorInRange ==
  /\ [](Len(sats) > 0 => menu.cur \in 0..(Len(sats) - 1))
  /\ [][pc = "loop" /\ Len(sats) > 0
          => /\ key' = "KEY_UP" /\ menu.cur = 0 => menu'.cur = 0
             /\ key' = "KEY_DOWN" /\ menu.cur = Len(sats) - 1
                  => menu'.cur = Len(sats) - 1]_vars

\* the cursor has been moved down to the last of three entries, and the
\* window of two rows has scrolled to it
C10_Witness ==
  /\ pc = "loop"
  /\ key = "KEY_DOWN"
  /\ handle = "live"
  /\ Len(sats) = 3
  /\ Ranges(sats) = <<50, 200, 400>>
  /\ menu = [cur |-> 2, top |-> 1]

\* C11: a refresh that the controller survives leaves the cursor on the
\* position index it had before the refresh.
C11_RefreshKeepsCursor ==
  [][pc = "loop" /\ pc' = "loop" /\ key' \in {" ", "ERR"}
       => menu'.cur = menu.cur]_vars

\* C12: the quit key ends the key loop from Listing and from Detail alike,
\* and once the controller has returned no kind of display resource has an
\* object left unreleased.
C12_QuitReleasesAll ==
  /\ [](pc = "done" => held = {})
  /\ [][pc = "loop" /\ key' = "q" => pc' = "done"]_vars

\* a step of the key loop with k the key read (the catalog is another
\* process's to change)
KeyStep(k) == pc = "loop" /\ key' = k /\ db' = db

\* t is what one updateTimeAndPositions and one sort make of s, or what is
\* left of s when a propagation throws
OneRefresh(s, t) ==
  \E la \in Skies(Len(s)) :
    IF Reached(la) < Len(s) THEN t = UpdateTimeAndPositions(s, la)
    ELSE t \in Sort(UpdateTimeAndPositions(s, la))

\* C13: a wait that runs out with no key is one refresh of the view, and
\* it happens only in a controller whose refresh timeout is not negative;
\* with a negative timeout, or none, the view changes only at the refresh
\* key.
C13_TimeoutRefreshes ==
  /\ [][KeyStep("ERR") => /\ gui = "render" /\ refreshSecs >= 0
                          /\ OneRefresh(sats, sats')]_vars
  /\ [][pc = "loop" /\ sats' # sats /\ (gui = "runGUI" \/ refreshSecs < 0)
          => key' = " "]_vars

\* render with a timeout of 0 has refreshed on an expired wait
C13_Witness ==
  /\ pc = "loop"
  /\ gui = "render"
  /\ refreshSecs = 0
  /\ key = "ERR"
  /\ Ranges(sats) = <<100, 300, 300>>

\* C14: the controller enters its loop with the list on screen; the select
\* key pressed while the list is on screen puts the info panel on top,
\* filled from the entry at the cursor; the back key pressed while the info
\* panel is on top takes it away and changes neither the view nor the
\* cursor, and reads nothing from the store.
C14_SelectAndBack ==
  /\ [](pc = "loop" /\ key = "none" => info # "shown")
  /\ [][KeyStep("d") /\ info # "shown" /\ Len(sats) > 0
          => /\ info' = "shown"
             /\ detail' = UpdateInfoWindow(sats[menu.cur + 1])]_vars
  /\ [][KeyStep("d") /\ info = "shown"
          => /\ info' # "shown"
             /\ sats' = sats /\ menu' = menu
             /\ fetches' = fetches]_vars

\* C17: neither the build of the view nor a refresh ends the process
\* (checked where no freed menu is involved: runGUI, and render up to its
\* first refresh), so that a record whose propagation fails costs its own
\* entry only.
C17_BearingFailureSkipped ==
  /\ [][pc = "main" => pc' = "gui"]_vars
  /\ [][(KeyStep(" ") \/ KeyStep("ERR")) /\ handle = "live"
          => pc' = "loop" /\ Len(sats') = Len(sats)]_vars

----------------------------------------------------------------------------
(* Claims about main (checked under SpecMain)                              *)

Rejected == \E i \in 1..Len(cerr) : cerr[i].what = "coordinates"

\* C15: with a latitude outside -90 .. 90 or a longitude outside
\* -180 .. 180 main goes from its arguments straight to a failure exit: the
\* store is never opened, no source is resolved, nothing is upserted, no
\* catalog is fetched and no view is built; with both inside, bounds
\* included, the coordinates are not rejected.
C15_CoordinatesChecked ==
  IF lat \notin -90..90 \/ lon \notin -180..180
    THEN /\ pc \in {"args", "exit"}
         /\ pc = "exit" => status = "failure" /\ Rejected
         /\ ~opened
         /\ calls = <<>> /\ upserts = <<>> /\ lineNumber = 0
         /\ fetches = 0 /\ sats = <<>>
    ELSE ~Rejected /\ (pc = "args" \/ pc = "open" \/ opened)

\* the observer (0, 181) has been turned away
C15_Witness ==
  /\ lat = 0 /\ lon = 181
  /\ sourceFile
  /\ pc = "exit"
  /\ status = "failure"

----------------------------------------------------------------------------
(* More claims about the ingestion (checked under SpecIngest)              *)

\* a line whose first character that is not white space is '#'
IsCommentLine(l) ==
  \E i \in 1..Len(l) : l[i] = "#" /\ \A j \in 1..(i - 1) : l[j] \in Whitespace

\* an empty line, or one of white space only
IsBlankLine(l) == \A i \in 1..Len(l) : l[i] \in Whitespace

OnlyCommentsAndBlanks(m) ==
  \A i \in 1..Len(m) : IsCommentLine(m[i]) \/ IsBlankLine(m[i])

\* C16: with a manifest of comment lines and blank lines only, update calls
\* neither tryParseFile nor tryParseURL, upserts no record, and no step of
\* it changes the store.
C16_CommentsOnly ==
  /\ [](OnlyCommentsAndBlanks(manifest)
          => calls = <<>> /\ results = <<>> /\ upserts = <<>>)
  /\ [][OnlyCommentsAndBlanks(manifest) => db' = db]_vars

\* update has returned from a manifest of a line of '#' only and a line of
\* white space only, on a store that holds a row
C16_Witness ==
  /\ pc = "done"
  /\ manifest = << <<"#", "#">>, <<" ", "\t", "\r">> >>
  /\ db = <<OldRow>>

\* the statement DBSQLite::update builds for tle fails
UpsertFails(tle) == ~DBUpdate(<<>>, tle).ok

\* C18: when update has returned every record of the batch has been handed
\* to the store, in order, whether or not an earlier upsert failed, and each
\* failed upsert has its own log line, with or without -v.
C18_FailedUpsertLogged ==
  pc = "done"
    => /\ upserts = results
       /\ \A i \in 1..Len(results) :
            UpsertFails(results[i])
              => /\ i <= Len(cout)
                 /\ cout[i].n = i
                 /\ cout[i].name = results[i].name
                 /\ ~cout[i].good

\* loc has "://" somewhere in it
HasScheme(loc) ==
  \E i \in 1..(Len(loc) - 2) :
    loc[i] = ":" /\ loc[i + 1] = "/" /\ loc[i + 2] = "/"

\* C20: tryParseFile opens no file for a location with "://" in it,
\* tryParseURL starts no transfer for a location without, and every call of
\* tryParseURL in update comes right after a call of tryParseFile for the
\* same location of the same manifest line that returned false.
C20_OnePathPerLocation ==
  \A i \in 1..Len(calls) :
    /\ calls[i].fn = "tryParseFile" /\ HasScheme(calls[i].loc)
         => ~calls[i].tried
    /\ calls[i].fn = "tryParseURL" /\ ~HasScheme(calls[i].loc)
         => ~calls[i].tried
    /\ calls[i].fn = "tryParseURL"
         => /\ i > 1
            /\ calls[i - 1].fn = "tryParseFile"
            /\ calls[i - 1].loc = calls[i].loc
            /\ calls[i - 1].lineNo = calls[i].lineNo
            /\ ~calls[i - 1].ret

\* a remote location and a name of no file have both been through update:
\* a transfer for the first, no transfer for the second
C20_Witness ==
  /\ pc = "done"
  /\ manifest = <<LocUrl, LocNone>>
  /\ Len(calls) = 4
  /\ ~calls[1].tried /\ calls[2].tried
  /\ calls[3].tried /\ ~calls[4].tried

----------------------------------------------------------------------------
(* More claims about the parser (checked under SpecParse)                  *)

\* a line that begins with a letter, or has at most 24 characters before its
\* line terminator
NameByRule(l) ==
  (l # <<>> /\ IsAlpha(l[1])) \/ Len(Chomp(l)) <= 24

\* C19: the first line of a record is taken as its name exactly when it
\* begins with a letter or has at most 24 characters, line terminator not
\* counted: the first record of a file of three lines or more, whose first
\* line is not blank, has a name if and only if that line is such a line.
C19_NameLineRule ==
  (pc = "parsed" /\ Len(input) >= 3 /\ RTrim(input[1]) # <<>>) =>
    /\ Len(parsed.tles) >= 1
    /\ parsed.tles[1].name # <<>> <=> NameByRule(input[1])

\* record k of readTLEs is made of input lines 3k-2, 3k-1 and 3k: every pass
\* of the loop reads three lines
DataLineOf(k, which) == IF which = 1 THEN 3 * k - 1 ELSE 3 * k

\* C21: in every record returned by readTLEs each data line has at most 69
\* characters: a data line longer than 69 characters is cut to its first 69
\* characters, and a data line of 69 characters or fewer is stored with
\* exactly its own content, nothing appended (no padding, no line
\* terminator).
C21_DataLinesCut ==
  pc = "parsed" =>
    \A k \in 1..Len(parsed.tles) :
      /\ Len(parsed.tles[k].line1) <= DataWidth
      /\ Len(parsed.tles[k].line2) <= DataWidth
      /\ DataLineOf(k, 1) <= Len(input)
           => parsed.tles[k].line1
                = Take(Chomp(input[DataLineOf(k, 1)]), DataWidth)
      /\ DataLineOf(k, 2) <= Len(input)
           => parsed.tles[k].line2
                = Take(Chomp(input[DataLineOf(k, 2)]), DataWidth)

\* C23: for every input, a name line of white space only or an empty one
\* included, the name of every record returned by readTLEs has no white
\* space (space, tab, CR, LF) at its end and at most 22 characters.
C23_NameTrimmed ==
  pc = "parsed" =>
    \A k \in 1..Len(parsed.tles) :
      LET name == parsed.tles[k].name
      IN  /\ Len(name) <= NameWidth
          /\ name = <<>> \/ name[Len(name)] \notin Whitespace

----------------------------------------------------------------------------
(* Claims about the manifest's lines (checked under SpecIngest)            *)

\* s without the whitespace at its start
RECURSIVE LTrim(_)
LTrim(s) ==
  IF s = <<>> \/ s[1] \notin Whitespace THEN s
  ELSE LTrim(SubSeq(s, 2, Len(s)))

\* what stands before the first '#' of l, white space at both ends removed
BeforeComment(l) ==
  LET h == CHOOSE i \in 1..Len(l) :
             l[i] = "#" /\ \A j \in 1..(i - 1) : l[j] # "#"
  IN  LTrim(RTrim(SubSeq(l, 1, h - 1)))

\* a location, optional white space, '#', a comment
HasInlineComment(l) ==
  /\ \E i \in 1..Len(l) : l[i] = "#"
  /\ BeforeComment(l) # <<>>
  /\ \A i \in 1..Len(BeforeComment(l)) : BeforeComment(l)[i] \notin Whitespace

\* C22: for a manifest line holding a location followed by an inline
\* comment, the string passed to the source loader is exactly the location,
\* without the white space around it and without the comment; the loader is
\* never given a string with '#' or white space in it.
C22_InlineComment ==
  /\ \A i \in 1..Len(calls) :
       \A j \in 1..Len(calls[i].loc) :
         calls[i].loc[j] # "#" /\ calls[i].loc[j] \notin Whitespace
  /\ \A n \in 1..lineNumber :
       HasInlineComment(manifest[n])
         => /\ CallsAt(n) # {}
            /\ \A i \in CallsAt(n) : calls[i].loc = BeforeComment(manifest[n])

\* update has been through a line with white space before its location and
\* before its comment, and a location with a comment, a '#' inside the
\* comment and a CR behind it: each was passed on bare
C22_Witness ==
  /\ pc = "done"
  /\ manifest = << <<" ", "a", " ", "#", "c">>, LineDead >>
  /\ Len(calls) = 3
  /\ calls[1].loc = LocA
  /\ calls[3].loc = LocDead

\* C24: update writes the 'Unknown entry' diagnostic for a manifest location
\* only if that location added no record to the batch: a remote location
\* whose fetch succeeded and whose records were appended never gets it.
C24_UnknownOnlyIfNothingAdded ==
  \A n \in 1..lineNumber :
    /\ UnknownDiags(n) # {} => SumAdded(CallsAt(n)) = 0
    /\ (\E i \in CallsAt(n) :
          calls[i].fn = "tryParseURL" /\ calls[i].success /\ calls[i].added > 0)
         => UnknownDiags(n) = {}

----------------------------------------------------------------------------
(* Claims about the detail panel (checked under SpecGui)                   *)

\* the assertions of SatLookAngles::operator[] that failed
FailedAsserts == {i \in 1..Len(cerr) : cerr[i].what = "assert"}

\* C25: in the interactive controller every access to the view by index
\* has index < size(), so the assertion of SatLookAngles::operator[] never
\* fails, the select key pressed on an empty view included.
C25_IndexInRange == FailedAsserts = {}

\* the keys that move the cursor
MoveKeys == {"KEY_DOWN", "KEY_UP", "KEY_NPAGE", "KEY_PPAGE"}

\* C26: while the info panel is shown a cursor-move key leaves the list
\* cursor where it is, so that on the return to the list the cursor is on
\* the index it had when the panel was opened.
C26_DetailKeepsCursor ==
  [][\A k \in MoveKeys :
       (KeyStep(k) /\ info = "shown") => menu'.cur = menu.cur]_vars

=============================================================================
